---- MODULE Spec2Model ----
(***************************************************************************)
(* Model of the conduit channel (native/src/conduit_ffi.c): a Go-style     *)
(* channel built from one mutex and two condition variables.               *)
(*                                                                         *)
(* Every action is one maximal critical section of a call: from            *)
(* pthread_mutex_lock (or from the return of pthread_cond_wait, which      *)
(* re-acquires the mutex) to the next pthread_cond_wait or                 *)
(* pthread_mutex_unlock.  The mutex is therefore free between actions.     *)
(* A condition variable is the set of threads blocked in                   *)
(* pthread_cond_wait on it; a thread whose pc is inside a wait loop but    *)
(* which is no longer in the set has been woken and will re-check its      *)
(* loop condition once it gets the mutex.                                  *)
(***************************************************************************)
EXTENDS Integers, Sequences, FiniteSets, TLC

\* ------------------------------------------------------------------ bounds
NumThreads == 3
MaxVals == 3
MaxCap == 2
MaxCases == 2       \* longest list handed to select_poll / select_wait
MaxTimeout == 2     \* largest value of a size_t in the model
SelVals == 1        \* payloads sent while a select is being observed

NULL == 0
Threads == 1..NumThreads
Values == 1..MaxVals

VARIABLES
    ch,         \* the conduit_channel_t (fields and the two wait sets)
    pc,         \* per thread: "idle" or the wait loop it is inside
    arg,        \* per thread: the value argument of its running send
    ret,        \* the result returned by the last step, NoRet if none was
    nextVal,    \* the next fresh payload handed to send / try_send
    sendRes,    \* history: per value, the result its send call returned
    released,   \* history: per value, how often the channel lean_dec'ed it
    recvLog,    \* history: values returned by receives, in mutex order
    enqLog,     \* history: values stored into the buffer, in mutex order
    closeBuf,   \* history: buffer content (FIFO order) at the first close
    closeRecvLen, \* history: Len(recvLog) at the first close, -1 before
    ch2,        \* a second channel, which only select looks at
    sel         \* the locals of the running select_poll / select_wait

vars == <<ch, pc, arg, ret, nextVal, sendRes, released, recvLog, enqLog,
          closeBuf, closeRecvLen, ch2, sel>>

hist == <<closeBuf, closeRecvLen>>

selv == <<ch2, sel>>

\* ------------------------------------------------------------ construction
\* conduit_channel_new (capacity 0) and conduit_channel_new_buffered.
conduit_channel_new_buffered(capacity) ==
    [ buffer        |-> [i \in 0..(capacity - 1) |-> NULL],
      capacity      |-> capacity,
      head          |-> 0,
      tail          |-> 0,
      count         |-> 0,
      pending_value |-> NULL,
      pending_ready |-> FALSE,
      pending_taken |-> FALSE,
      closed        |-> FALSE,
      not_empty     |-> {},
      not_full      |-> {} ]

NoRet == [op |-> "none", res |-> "none", val |-> NULL]

\* No select call is running.
SelIdle == [pc |-> "idle", mode |-> "none", cases |-> <<>>, i |-> 0,
            timeout_ms |-> 0, elapsed |-> 0]

Init ==
    /\ \E capacity \in 0..MaxCap : ch = conduit_channel_new_buffered(capacity)
    /\ pc = [t \in Threads |-> "idle"]
    /\ arg = [t \in Threads |-> NULL]
    /\ ret = NoRet
    /\ nextVal = 1
    /\ sendRes = [v \in Values |-> "none"]
    /\ released = [v \in Values |-> 0]
    /\ recvLog = <<>>
    /\ enqLog = <<>>
    /\ closeBuf = <<>>
    /\ closeRecvLen = -1
    /\ ch2 = conduit_channel_new_buffered(1)
    /\ sel = SelIdle

\* ------------------------------------------------------ condition variables
\* A plausible slip: a forgotten pthread_cond_signal.
cond_signal_missing(W) == {W}

\* pthread_cond_signal: wakes one of the threads blocked on the condition
\* variable, if there is one.  The result is the set of possible wait sets.
cond_signal(W) == IF W = {} THEN {W} ELSE {W \ {w} : w \in W}

\* A plausible slip: close waking a single waiter instead of all of them.
cond_broadcast_one(W) == cond_signal(W)

\* pthread_cond_broadcast: wakes every thread blocked on it.
cond_broadcast(W) == {{}}

\* The content of the circular buffer in FIFO order.
BufSeq(c) == [i \in 1..c.count |-> c.buffer[(c.head + i - 1) % c.capacity]]

\* A plausible slip: dequeuing at the write position instead of the read one.
read_position_tail(c) == c.tail

\* The slot a dequeue reads and clears: buffer[head].
read_position(c) == c.head

\* A plausible slip: a dequeue leaving the value in the slot it read.
slot_after_take_stale(value) == value

\* What a dequeue leaves in the slot it read: the slot is cleared.
slot_after_take(value) == NULL

\* A plausible slip: treating a closed channel as drained.
recv_drained_or_closed(c) == c.count = 0 \/ c.closed

\* recv's test after its wait loop: nothing left to deliver.
recv_drained(c) == c.count = 0

\* A plausible slip: no re-check of closed after the wait on not_full.
send_closed_recheck_missing(c) == FALSE

\* Buffered send's re-check of closed after its wait loop.
send_closed_recheck(c) == c.closed

\* A plausible slip: success decided by the closed flag, not by the claim.
send_success_not_closed(c) == ~c.closed

\* Unbuffered send's result: was the pending value taken.
send_success(c) == c.pending_taken

\* A plausible slip: refusing the pending value once the channel is closed.
recv_pending_claimable_open(c) ==
    c.pending_ready /\ ~c.pending_taken /\ ~c.closed

\* Unbuffered recv's test after its wait loop: a deposited, unclaimed value.
recv_pending_claimable(c) == c.pending_ready /\ ~c.pending_taken

\* A plausible slip: an off-by-one in the full test of the wait loop.
send_must_wait_off_by_one(c) == c.count > c.capacity /\ ~c.closed

\* Buffered send's wait-loop condition: full and not closed.
send_must_wait(c) == c.count >= c.capacity /\ ~c.closed

\* A plausible slip: an off-by-one in try_send's full test.
try_send_full_off_by_one(c) == c.count > c.capacity

\* try_send's full test on a buffered channel.
try_send_full(c) == c.count >= c.capacity

\* A plausible slip: reporting closed before looking at the buffer.
try_recv_empty_or_closed(c) == c.count = 0 \/ c.closed

\* try_recv's empty test on a buffered channel.
try_recv_empty(c) == c.count = 0

\* ---------------------------------------------------------------- plumbing
Returns(t, op, res, val) ==
    /\ pc' = [pc EXCEPT ![t] = "idle"]
    /\ arg' = [arg EXCEPT ![t] = NULL]
    /\ ret' = [op |-> op, res |-> res, val |-> val]

Blocks(t, label, value) ==
    /\ pc' = [pc EXCEPT ![t] = label]
    /\ arg' = [arg EXCEPT ![t] = value]
    /\ ret' = NoRet

lean_dec(value) == released' = [released EXCEPT ![value] = @ + 1]

\* A plausible slip: the sender leaving its value in the slot on its way out.
send_reset_keeps_value(c) ==
    [c EXCEPT !.pending_ready = FALSE, !.pending_taken = FALSE]

\* The sender empties the rendezvous slot after its wait loop.
send_reset(c) ==
    [c EXCEPT !.pending_value = NULL,
              !.pending_ready = FALSE,
              !.pending_taken = FALSE]

\* ------------------------------------------------------------ blocking send
\* The unbuffered rendezvous of send after the deposit: the wait loop on
\* not_full and the code after it.  c is the channel as the thread sees it
\* while holding the mutex.
send_unbuffered_wait(t, c, value) ==
    IF ~c.pending_taken /\ ~c.closed
    THEN /\ ch' = [c EXCEPT !.not_full = @ \cup {t}]
         /\ Blocks(t, "send_unbuffered", value)
         /\ UNCHANGED <<sendRes, released>>
    ELSE LET success == send_success(c) IN
         /\ ch' = send_reset(c)
         /\ IF ~success THEN lean_dec(value) ELSE UNCHANGED released
         /\ sendRes' = [sendRes EXCEPT
                          ![value] = IF success THEN "true" ELSE "false"]
         /\ Returns(t, "send", IF success THEN "true" ELSE "false", value)

\* The buffered branch of send: the wait loop on not_full, the closed
\* re-check and the enqueue.
send_buffered_wait(t, c, value) ==
    IF send_must_wait(c)
    THEN /\ ch' = [c EXCEPT !.not_full = @ \cup {t}]
         /\ Blocks(t, "send_buffered", value)
         /\ UNCHANGED <<sendRes, released, enqLog>>
    ELSE IF send_closed_recheck(c)
    THEN /\ ch' = c
         /\ lean_dec(value)
         /\ sendRes' = [sendRes EXCEPT ![value] = "false"]
         /\ Returns(t, "send", "false", value)
         /\ UNCHANGED enqLog
    ELSE \E ne \in cond_signal(c.not_empty) :
         /\ ch' = [c EXCEPT !.buffer[c.tail] = value,
                            !.tail = (c.tail + 1) % c.capacity,
                            !.count = c.count + 1,
                            !.not_empty = ne]
         /\ enqLog' = Append(enqLog, value)
         /\ sendRes' = [sendRes EXCEPT ![value] = "true"]
         /\ Returns(t, "send", "true", value)
         /\ UNCHANGED released

\* conduit_channel_send, from the call to its first wait or its return.
conduit_channel_send(t) ==
    /\ pc[t] = "idle"
    /\ nextVal <= MaxVals
    /\ LET value == nextVal IN
       /\ nextVal' = nextVal + 1
       /\ IF ch.closed
          THEN /\ ch' = ch
               /\ lean_dec(value)
               /\ sendRes' = [sendRes EXCEPT ![value] = "false"]
               /\ Returns(t, "send", "false", value)
               /\ UNCHANGED enqLog
          ELSE IF ch.capacity = 0
          THEN /\ \E ne \in cond_signal(ch.not_empty) :
                    send_unbuffered_wait(t,
                        [ch EXCEPT !.pending_value = value,
                                   !.pending_ready = TRUE,
                                   !.pending_taken = FALSE,
                                   !.not_empty = ne],
                        value)
               /\ UNCHANGED enqLog
          ELSE send_buffered_wait(t, ch, value)
    /\ UNCHANGED <<recvLog, hist, selv>>

\* conduit_channel_send resuming from pthread_cond_wait(&ch->not_full).
conduit_channel_send_wake(t) ==
    /\ pc[t] \in {"send_unbuffered", "send_buffered"}
    /\ t \notin ch.not_full
    /\ IF pc[t] = "send_unbuffered"
       THEN send_unbuffered_wait(t, ch, arg[t]) /\ UNCHANGED enqLog
       ELSE send_buffered_wait(t, ch, arg[t])
    /\ UNCHANGED <<nextVal, recvLog, hist, selv>>

\* ---------------------------------------------------------- blocking receive
\* The unbuffered branch of recv: the wait loop on not_empty, the claim of
\* the pending value, and the closed-with-nothing-pending return.
recv_unbuffered_wait(t, c) ==
    IF ~c.pending_ready /\ ~c.closed
    THEN /\ ch' = [c EXCEPT !.not_empty = @ \cup {t}]
         /\ Blocks(t, "recv_unbuffered", NULL)
         /\ UNCHANGED recvLog
    ELSE IF recv_pending_claimable(c)
    THEN \E nf \in cond_signal(c.not_full) :
         /\ ch' = [c EXCEPT !.pending_taken = TRUE,
                            !.pending_ready = FALSE,
                            !.not_full = nf]
         /\ recvLog' = Append(recvLog, c.pending_value)
         /\ Returns(t, "recv", "some", c.pending_value)
    ELSE /\ ch' = c
         /\ Returns(t, "recv", "none", NULL)
         /\ UNCHANGED recvLog

\* The buffered branch of recv: the wait loop on not_empty, the
\* closed-and-empty return and the dequeue.
recv_buffered_wait(t, c) ==
    IF c.count = 0 /\ ~c.closed
    THEN /\ ch' = [c EXCEPT !.not_empty = @ \cup {t}]
         /\ Blocks(t, "recv_buffered", NULL)
         /\ UNCHANGED recvLog
    ELSE IF recv_drained(c)
    THEN /\ ch' = c
         /\ Returns(t, "recv", "none", NULL)
         /\ UNCHANGED recvLog
    ELSE \E nf \in cond_signal(c.not_full) :
         /\ ch' = [c EXCEPT !.buffer[read_position(c)] =
                                slot_after_take(c.buffer[read_position(c)]),
                            !.head = (c.head + 1) % c.capacity,
                            !.count = c.count - 1,
                            !.not_full = nf]
         /\ recvLog' = Append(recvLog, c.buffer[read_position(c)])
         /\ Returns(t, "recv", "some", c.buffer[read_position(c)])

\* conduit_channel_recv, from the call to its first wait or its return.
conduit_channel_recv(t) ==
    /\ pc[t] = "idle"
    /\ IF ch.capacity = 0
       THEN recv_unbuffered_wait(t, ch)
       ELSE recv_buffered_wait(t, ch)
    /\ UNCHANGED <<nextVal, sendRes, released, enqLog, hist, selv>>

\* conduit_channel_recv resuming from pthread_cond_wait(&ch->not_empty).
conduit_channel_recv_wake(t) ==
    /\ pc[t] \in {"recv_unbuffered", "recv_buffered"}
    /\ t \notin ch.not_empty
    /\ IF pc[t] = "recv_unbuffered"
       THEN recv_unbuffered_wait(t, ch)
       ELSE recv_buffered_wait(t, ch)
    /\ UNCHANGED <<nextVal, sendRes, released, enqLog, hist, selv>>

\* ------------------------------------------------------ non-blocking variants
\* A plausible slip: the unbuffered branch signalling not_empty as the
\* buffered one does, although nothing was deposited.
try_send_unbuffered_signal(t, value) ==
    /\ \E ne \in cond_signal(ch.not_empty) :
           ch' = [ch EXCEPT !.not_empty = ne]
    /\ lean_dec(value)
    /\ sendRes' = [sendRes EXCEPT ![value] = "would_block"]
    /\ Returns(t, "try_send", "would_block", value)
    /\ UNCHANGED enqLog

\* try_send on an open unbuffered channel: always would-block.
try_send_unbuffered(t, value) ==
    /\ ch' = ch
    /\ lean_dec(value)
    /\ sendRes' = [sendRes EXCEPT ![value] = "would_block"]
    /\ Returns(t, "try_send", "would_block", value)
    /\ UNCHANGED enqLog

conduit_channel_try_send(t) ==
    /\ pc[t] = "idle"
    /\ nextVal <= MaxVals
    /\ LET value == nextVal IN
       /\ nextVal' = nextVal + 1
       /\ IF ch.closed
          THEN /\ ch' = ch
               /\ lean_dec(value)
               /\ sendRes' = [sendRes EXCEPT ![value] = "closed"]
               /\ Returns(t, "try_send", "closed", value)
               /\ UNCHANGED enqLog
          ELSE IF ch.capacity = 0
          THEN try_send_unbuffered(t, value)
          ELSE IF try_send_full(ch)
          THEN /\ ch' = ch
               /\ lean_dec(value)
               /\ sendRes' = [sendRes EXCEPT ![value] = "would_block"]
               /\ Returns(t, "try_send", "would_block", value)
               /\ UNCHANGED enqLog
          ELSE \E ne \in cond_signal(ch.not_empty) :
               /\ ch' = [ch EXCEPT !.buffer[ch.tail] = value,
                                   !.tail = (ch.tail + 1) % ch.capacity,
                                   !.count = ch.count + 1,
                                   !.not_empty = ne]
               /\ enqLog' = Append(enqLog, value)
               /\ sendRes' = [sendRes EXCEPT ![value] = "ok"]
               /\ Returns(t, "try_send", "ok", value)
               /\ UNCHANGED released
    /\ UNCHANGED <<recvLog, hist, selv>>

conduit_channel_try_recv(t) ==
    /\ pc[t] = "idle"
    /\ IF ch.capacity = 0
       THEN IF ch.pending_ready /\ ~ch.pending_taken
            THEN \E nf \in cond_signal(ch.not_full) :
                 /\ ch' = [ch EXCEPT !.pending_taken = TRUE,
                                     !.pending_ready = FALSE,
                                     !.not_full = nf]
                 /\ recvLog' = Append(recvLog, ch.pending_value)
                 /\ Returns(t, "try_recv", "ok", ch.pending_value)
            ELSE /\ ch' = ch
                 /\ Returns(t, "try_recv",
                            IF ch.closed THEN "closed" ELSE "empty", NULL)
                 /\ UNCHANGED recvLog
       ELSE IF try_recv_empty(ch)
            THEN /\ ch' = ch
                 /\ Returns(t, "try_recv",
                            IF ch.closed THEN "closed" ELSE "empty", NULL)
                 /\ UNCHANGED recvLog
            ELSE \E nf \in cond_signal(ch.not_full) :
                 /\ ch' = [ch EXCEPT !.buffer[ch.head] =
                                         slot_after_take(ch.buffer[ch.head]),
                                     !.head = (ch.head + 1) % ch.capacity,
                                     !.count = ch.count - 1,
                                     !.not_full = nf]
                 /\ recvLog' = Append(recvLog, ch.buffer[ch.head])
                 /\ Returns(t, "try_recv", "ok", ch.buffer[ch.head])
    /\ UNCHANGED <<nextVal, sendRes, released, enqLog, hist, selv>>

\* -------------------------------------------------------------------- close
\* A plausible slip: close flipping the flag instead of setting it.
conduit_channel_close_toggle(t) ==
    /\ pc[t] = "idle"
    /\ ch' = [ch EXCEPT !.closed = ~ch.closed, !.not_empty = {},
                        !.not_full = {}]
    /\ closeBuf' = IF ch.closed THEN closeBuf ELSE BufSeq(ch)
    /\ closeRecvLen' = IF ch.closed THEN closeRecvLen ELSE Len(recvLog)
    /\ Returns(t, "close", "unit", NULL)
    /\ UNCHANGED <<nextVal, sendRes, released, recvLog, enqLog, selv>>

conduit_channel_close(t) ==
    /\ pc[t] = "idle"
    /\ IF ~ch.closed
       THEN /\ \E ne \in cond_broadcast(ch.not_empty),
                  nf \in cond_broadcast(ch.not_full) :
                 ch' = [ch EXCEPT !.closed = TRUE,
                                  !.not_empty = ne,
                                  !.not_full = nf]
            /\ closeBuf' = BufSeq(ch)
            /\ closeRecvLen' = Len(recvLog)
       ELSE UNCHANGED <<ch, hist>>
    /\ Returns(t, "close", "unit", NULL)
    /\ UNCHANGED <<nextVal, sendRes, released, recvLog, enqLog, selv>>

\* ---------------------------------------------------------- spurious wakeup
\* pthread_cond_wait may return without a signal; the wait loops exist to
\* re-check the condition in that case.
SpuriousWakeup(t) ==
    /\ t \in ch.not_empty \cup ch.not_full
    /\ ch' = [ch EXCEPT !.not_empty = @ \ {t}, !.not_full = @ \ {t}]
    /\ ret' = NoRet
    /\ UNCHANGED <<pc, arg, nextVal, sendRes, released, recvLog, enqLog, hist, selv>>

\* ---------------------------------------------------------------- finalizer
\* The runtime calls the finalizer when the last reference to the channel
\* is dropped, so no thread is inside a call or can make one afterwards
\* (pc "freed").  It releases the values still in the buffer, advancing
\* head, and the pending value if the slot holds one; then it frees the
\* channel.  ret.val records the pending value it released.
conduit_channel_finalizer ==
    /\ \A t \in Threads : pc[t] = "idle"
    /\ sel.pc = "idle"
    /\ ch' = IF ch.capacity > 0
             THEN [ch EXCEPT !.head = (ch.head + ch.count) % ch.capacity,
                             !.count = 0]
             ELSE ch
    /\ released' =
          [v \in Values |->
              released[v]
              + Cardinality({i \in 1..ch.count : BufSeq(ch)[i] = v})
              + (IF ch.pending_value = v THEN 1 ELSE 0)]
    /\ pc' = [t \in Threads |-> "freed"]
    /\ ret' = [op |-> "finalizer", res |-> "unit", val |-> ch.pending_value]
    /\ UNCHANGED <<arg, nextVal, sendRes, recvLog, enqLog, hist, selv>>

\* ------------------------------------------------------------------- select
\* The thread that calls select_poll / select_wait in the select
\* specification; the other threads call the channel operations meanwhile.
Selector == NumThreads

\* The (channel, is_send) pairs of a case list, and the lists themselves.
Pairs == [chan : {1, 2}, is_send : BOOLEAN]
CaseLists == UNION {[1..n -> Pairs] : n \in 0..MaxCases}

\* conduit_channel_unbox of a pair's channel object.
chan_of(pair) == IF pair.chan = 1 THEN ch ELSE ch2

\* A plausible slip: a send-intent pair found ready on a closed channel.
poll_ready_ignores_closed(c, is_send) ==
    IF is_send
    THEN c.capacity > 0 /\ c.count < c.capacity
    ELSE c.count > 0 \/ (c.pending_ready /\ ~c.pending_taken) \/ c.closed

\* The readiness select_poll computes for one pair under the channel mutex.
poll_ready(c, is_send) ==
    IF is_send
    THEN ~c.closed /\ (c.capacity > 0 /\ c.count < c.capacity)
    ELSE c.count > 0 \/ (c.pending_ready /\ ~c.pending_taken) \/ c.closed

\* The sleep between two poll rounds of select_wait, in milliseconds.
poll_interval == 1

\* The number of values of a size_t, scaled down.
SizeRange == MaxTimeout + 1

\* The conversion of a natural number to a size_t wraps around.
lean_usize_of_nat(n) == n % SizeRange

\* A plausible slip: an off-by-one in the timeout test.
wait_loop_continues_off_by_one(timeout_ms, elapsed) ==
    timeout_ms = 0 \/ elapsed <= timeout_ms

\* The loop condition of select_wait.
wait_loop_continues(timeout_ms, elapsed) ==
    timeout_ms = 0 \/ elapsed < timeout_ms

\* A plausible slip: the closed test of the all_closed loop inverted.
wait_channel_open_inverted(c) == c.closed

\* select_wait's test in its all_closed loop: this channel is not closed.
wait_channel_open(c) == ~c.closed

\* The name under which the running select call returns.
SelOp == IF sel.mode = "wait" THEN "select_wait" ELSE "select_poll"

SelReturns(op, res, val) ==
    /\ sel' = SelIdle
    /\ ret' = [op |-> op, res |-> res, val |-> val]

SelContinues(s) ==
    /\ sel' = s
    /\ ret' = NoRet

chanv == <<ch, pc, arg, nextVal, sendRes, released, recvLog, enqLog, hist,
           ch2>>

\* conduit_select_poll called on its own, up to its loop.
conduit_select_poll ==
    /\ sel.pc = "idle"
    /\ pc[Selector] = "idle"
    /\ \E cases \in CaseLists :
          SelContinues([SelIdle EXCEPT !.pc = "poll", !.mode = "poll",
                                      !.cases = cases])
    /\ UNCHANGED chanv

\* The poll found no ready pair: select_poll returns none, select_wait
\* goes on to its all_closed loop.
poll_none ==
    IF sel.mode = "poll"
    THEN SelReturns("select_poll", "none", NULL)
    ELSE SelContinues([sel EXCEPT !.pc = "closed_check", !.i = 0])

\* One iteration of select_poll's loop: pair i is inspected under its
\* channel's mutex.  The first ready pair ends the poll; after the last
\* pair, or at once for an empty list, the poll gives none.
conduit_select_poll_inspect ==
    /\ sel.pc = "poll"
    /\ IF sel.i >= Len(sel.cases)
       THEN poll_none
       ELSE LET pair == sel.cases[sel.i + 1]
                ready == poll_ready(chan_of(pair), pair.is_send)
            IN IF ready
               THEN SelReturns(SelOp, "some", sel.i)
               ELSE IF sel.i + 1 < Len(sel.cases)
               THEN SelContinues([sel EXCEPT !.i = sel.i + 1])
               ELSE poll_none
    /\ UNCHANGED chanv

\* conduit_select_wait is called with a natural number as timeout, which
\* is converted to a size_t; then the first test of its loop condition.
conduit_select_wait ==
    /\ sel.pc = "idle"
    /\ pc[Selector] = "idle"
    /\ \E cases \in CaseLists, timeout_obj \in 0..(MaxTimeout + 1) :
          LET timeout_ms == lean_usize_of_nat(timeout_obj)
          IN IF ~wait_loop_continues(timeout_ms, 0)
             THEN SelReturns("select_wait", "none", NULL)
             ELSE SelContinues([SelIdle EXCEPT !.pc = "poll",
                                              !.mode = "wait",
                                              !.cases = cases,
                                              !.timeout_ms = timeout_ms])
    /\ UNCHANGED chanv

\* One iteration of select_wait's all_closed loop: the channel of pair i
\* is inspected under its mutex; an open one ends the loop and leads to
\* the sleep, the last closed one (or an empty list) makes select_wait
\* return none.
conduit_select_wait_closed_check ==
    /\ sel.pc = "closed_check"
    /\ IF sel.i >= Len(sel.cases)
       THEN SelReturns("select_wait", "none", NULL)
       ELSE IF wait_channel_open(chan_of(sel.cases[sel.i + 1]))
       THEN SelContinues([sel EXCEPT !.pc = "sleep", !.i = 0])
       ELSE IF sel.i + 1 < Len(sel.cases)
       THEN SelContinues([sel EXCEPT !.i = sel.i + 1])
       ELSE SelReturns("select_wait", "none", NULL)
    /\ UNCHANGED chanv

\* The nanosleep of select_wait, the advance of elapsed (a size_t) and
\* the next test of the loop condition.
conduit_select_wait_sleep ==
    /\ sel.pc = "sleep"
    /\ LET elapsed == (sel.elapsed + poll_interval) % SizeRange
       IN IF wait_loop_continues(sel.timeout_ms, elapsed)
          THEN SelContinues([sel EXCEPT !.pc = "poll", !.i = 0,
                                       !.elapsed = elapsed])
          ELSE SelReturns("select_wait", "none", NULL)
    /\ UNCHANGED chanv

\* ------------------------------------------------------------ specification
Next ==
    \/ \E t \in Threads :
          \/ conduit_channel_send(t)
          \/ conduit_channel_send_wake(t)
          \/ conduit_channel_recv(t)
          \/ conduit_channel_recv_wake(t)
          \/ conduit_channel_try_send(t)
          \/ conduit_channel_try_recv(t)
          \/ conduit_channel_close(t)
          \/ SpuriousWakeup(t)
    \/ conduit_channel_finalizer

Spec == Init /\ [][Next]_vars

\* A thread that was woken from pthread_cond_wait eventually gets the mutex
\* and runs on.  Starting a new call is the caller's choice and is not fair.
Fairness ==
    \A t \in Threads :
        /\ WF_vars(conduit_channel_send_wake(t))
        /\ WF_vars(conduit_channel_recv_wake(t))

FairSpec == Spec /\ Fairness

\* The states of the second channel: a buffered channel of capacity one
\* that is empty, that holds one value, or that was closed.
OtherPayload == MaxVals + 1

Ch2States ==
    { conduit_channel_new_buffered(1),
      [conduit_channel_new_buffered(1) EXCEPT !.buffer[0] = OtherPayload,
                                              !.count = 1],
      [conduit_channel_new_buffered(1) EXCEPT !.closed = TRUE] }

\* The select specification: one thread calls select_poll and select_wait
\* on lists over the two channels while the other threads operate on the
\* first channel.
SelInit ==
    /\ \E capacity \in 0..MaxCap : ch = conduit_channel_new_buffered(capacity)
    /\ pc = [t \in Threads |-> "idle"]
    /\ arg = [t \in Threads |-> NULL]
    /\ ret = NoRet
    /\ nextVal = (IF SelVals >= MaxVals THEN 1 ELSE MaxVals - SelVals + 1)
    /\ sendRes = [v \in Values |-> "none"]
    /\ released = [v \in Values |-> 0]
    /\ recvLog = <<>>
    /\ enqLog = <<>>
    /\ closeBuf = <<>>
    /\ closeRecvLen = -1
    /\ ch2 \in Ch2States
    /\ sel = SelIdle

SelNext ==
    \/ \E t \in Threads \ {Selector} :
          \/ conduit_channel_send(t)
          \/ conduit_channel_send_wake(t)
          \/ conduit_channel_recv(t)
          \/ conduit_channel_recv_wake(t)
          \/ conduit_channel_try_send(t)
          \/ conduit_channel_try_recv(t)
          \/ conduit_channel_close(t)
          \/ SpuriousWakeup(t)
    \/ conduit_select_poll
    \/ conduit_select_poll_inspect
    \/ conduit_select_wait
    \/ conduit_select_wait_closed_check
    \/ conduit_select_wait_sleep
    \/ conduit_channel_finalizer

SelSpec == SelInit /\ [][SelNext]_vars

TypeOK ==
    /\ ch.capacity \in 0..MaxCap
    /\ ch.count \in 0..ch.capacity
    /\ ch.not_empty \subseteq Threads
    /\ ch.not_full \subseteq Threads
    /\ nextVal \in 1..(MaxVals + 1)
    /\ \A t \in Threads :
         pc[t] \in {"idle", "send_unbuffered", "send_buffered",
                    "recv_unbuffered", "recv_buffered", "freed"}

\* ================================================================== claims
\* How often value v occurs in the sequence s.
Count(v, s) == Cardinality({i \in 1..Len(s) : s[i] = v})

\* The values received since the first close.
PostClose == SubSeq(recvLog, closeRecvLen + 1, Len(recvLog))

\* The finalizer has run: the channel no longer exists.
Freed == \A t \in Threads : pc[t] = "freed"

\* Thread t is inside a blocking send or recv.
Inside(t) == pc[t] \notin {"idle", "freed"}

Unbuffered == ch.capacity = 0
Buffered == ch.capacity > 0

\* The value v is the argument of a send blocked in the rendezvous.
InRendezvous(v) ==
    \E t \in Threads : pc[t] = "send_unbuffered" /\ arg[t] = v

\* C1: on an unbuffered channel no value is returned by two receives, a
\* value whose send returned true was returned by exactly one receive, and
\* the value of a send still in its rendezvous on an open channel, not yet
\* claimed, is still the one in the pending slot (not overwritten, not
\* dropped).
C1_NoDoubleDelivery ==
    Unbuffered =>
        \A v \in Values :
            /\ Count(v, recvLog) <= 1
            /\ sendRes[v] = "true" => Count(v, recvLog) = 1
            /\ (InRendezvous(v) /\ Count(v, recvLog) = 0 /\ ~ch.closed)
                   => (ch.pending_ready /\ ch.pending_value = v)

\* C2: every value whose send or try_send has returned is either owned by
\* the channel or by exactly one receiver and was never released (the call
\* succeeded), or was released exactly once and never handed to a receiver
\* (the call failed); never both, never neither.  Once the channel is
\* destroyed, a value it owned was released exactly once by the finalizer.
C2_ExclusiveOwnership ==
    \A v \in Values :
        /\ sendRes[v] \in {"true", "ok"} =>
              IF Freed
              THEN Count(v, recvLog) + released[v] = 1
              ELSE /\ released[v] = 0
                   /\ Count(v, recvLog) + Count(v, BufSeq(ch)) = 1
        /\ sendRes[v] \in {"false", "would_block", "closed"} =>
              /\ released[v] = 1
              /\ Count(v, recvLog) + Count(v, BufSeq(ch)) = 0

\* C3: a blocking send returns true only if its own value was claimed by a
\* receive (unbuffered) or enqueued (buffered), and returns false only if
\* the channel is closed and its value was not delivered.
C3_SendResultMeansDelivery ==
    \A v \in Values :
        /\ sendRes[v] = "true" =>
              IF Unbuffered THEN v \in {recvLog[i] : i \in 1..Len(recvLog)}
              ELSE v \in {enqLog[i] : i \in 1..Len(enqLog)}
        /\ sendRes[v] = "false" =>
              /\ ch.closed
              /\ v \notin {recvLog[i] : i \in 1..Len(recvLog)}
              /\ v \notin {enqLog[i] : i \in 1..Len(enqLog)}

\* C4: on a buffered channel that has not been destroyed the values returned by receives are a prefix
\* of the values in the order they were enqueued, and what was enqueued and
\* not yet received is the buffer content from head on.
C4_FIFO ==
    (Buffered /\ ~Freed) => recvLog \o BufSeq(ch) = enqLog

\* C4 witness: three values went through a buffer of capacity two in
\* order, so the indices wrapped.
C4_Witness ==
    /\ ch.capacity = 2
    /\ Len(recvLog) = 3
    /\ recvLog = enqLog
    /\ ch.closed = FALSE

\* C5: on an unbuffered channel, once a receive has claimed the value of a
\* blocked send, that send eventually returns true.
C5_RendezvousCompletes ==
    \A v \in Values :
        (Unbuffered /\ Count(v, recvLog) = 1) ~> (sendRes[v] = "true")

\* C6: after close, every thread that is inside a blocking send or recv
\* eventually returns.
C6_CloseReleasesBlocked ==
    \A t \in Threads : (ch.closed /\ Inside(t)) ~> ~Inside(t)

\* C6 witness: the channel has just been closed while two threads were
\* inside blocking calls.
C6_Witness ==
    /\ ch.closed
    /\ ret.op = "close"
    /\ Cardinality({t \in Threads : pc[t] # "idle"}) >= 2

\* The value v was not yet claimed when the channel was closed.
UnclaimedAtClose(v) ==
    /\ ch.closed
    /\ v \notin {recvLog[i] : i \in 1..closeRecvLen}

\* C7 as stated: a send in its rendezvous whose value was still unclaimed
\* when the channel was closed returns false.
C7_CloseFirstFailsSend ==
    [][\A t \in Threads :
          (pc[t] = "send_unbuffered" /\ pc'[t] = "idle"
              /\ UnclaimedAtClose(arg[t]))
          => ret'.res = "false"]_vars

\* C7 amended: a send leaving its rendezvous returns true exactly if
\* pending_taken is set at that moment, whether or not the channel was
\* closed before the claim, and returns false exactly if pending_taken is
\* clear and the channel is closed, releasing its value; as long as no
\* receive has claimed anything it returns false.
C7_SendReturnsTaken ==
    [][\A t \in Threads :
          (pc[t] = "send_unbuffered" /\ pc'[t] = "idle") =>
              /\ ret'.op = "send" /\ ret'.val = arg[t]
              /\ ret'.res = "true" <=> ch.pending_taken
              /\ ret'.res = "false" <=> (~ch.pending_taken /\ ch.closed)
              /\ ret'.res = "false" =>
                    released'[arg[t]] = released[arg[t]] + 1
              /\ ret'.res = "true" => released'[arg[t]] = released[arg[t]]
              /\ recvLog = <<>> => ret'.res = "false"]_vars

\* C7 witness: a send returned true for a value that a receive claimed
\* after the channel had been closed.
C7_Witness ==
    /\ Unbuffered
    /\ ret.op = "send" /\ ret.res = "true"
    /\ UnclaimedAtClose(ret.val)
    /\ ret.val \in {recvLog[i] : i \in 1..Len(recvLog)}

\* The last step returned from a receive without a value.
ReceivedAbsent ==
    \/ ret.op = "recv" /\ ret.res = "none"
    \/ ret.op = "try_recv" /\ ret.res = "closed"

\* C8: until the channel is destroyed, the values received since the close
\* of a buffered channel, followed by what is still buffered, are the
\* values that were buffered at the close, in order; a receive returns
\* absent or closed only when all of them have been received.
C8_DrainAfterClose ==
    (Buffered /\ ch.closed /\ ~Freed) =>
        /\ PostClose \o BufSeq(ch) = closeBuf
        /\ ReceivedAbsent => PostClose = closeBuf

\* C8 witness: a channel closed with two buffered values was drained by
\* two receives and the next receive found it closed and empty.
C8_Witness ==
    /\ ch.closed
    /\ Len(closeBuf) = 2
    /\ PostClose = closeBuf
    /\ ReceivedAbsent

\* C9: a send or try_send that starts on a closed channel returns false or
\* closed in that step and leaves the channel as it was; on a closed
\* buffered channel count never grows and nothing is enqueued.
C9_NoSendAfterClose ==
    [][/\ (ch.closed /\ nextVal' = nextVal + 1) =>
              /\ ch' = ch
              /\ pc' = pc
              /\ ret'.op \in {"send", "try_send"}
              /\ ret'.res = (IF ret'.op = "send" THEN "false" ELSE "closed")
       /\ (ch.closed /\ Buffered) =>
              /\ ch'.count <= ch.count
              /\ enqLog' = enqLog]_vars

\* C9 witness: a send that was blocked on a full buffer when the channel
\* was closed has returned false, the buffer still full.
C9_Witness ==
    /\ Buffered /\ ch.closed
    /\ ret.op = "send" /\ ret.res = "false"
    /\ ret.val < nextVal - 1
    /\ ch.count = ch.capacity
    /\ Len(closeBuf) = ch.capacity

\* C10: closed is false until the first close, and is never reset; every
\* close returns in its step leaving the channel closed, and a close of a
\* closed channel changes nothing.
C10_IdempotentClose ==
    /\ [](closeRecvLen = -1 => ~ch.closed)
    /\ [][/\ ch.closed => ch'.closed
          /\ ret'.op = "close" => (ch'.closed /\ pc' = pc)
          /\ (ret'.op = "close" /\ ch.closed) =>
                 /\ ch' = ch
                 /\ UNCHANGED <<pc, arg, nextVal, sendRes, released,
                                recvLog, enqLog, closeBuf, closeRecvLen>>]_vars

\* C10 witness: a close has returned on a channel that took part in
\* traffic after an earlier close.
C10_Witness ==
    /\ ch.closed
    /\ ret.op = "close"
    /\ Len(recvLog) > closeRecvLen
    /\ closeRecvLen >= 0

\* The channel has something a receive can take: a buffered value, or a
\* deposited and unclaimed pending value.
Deliverable(c) ==
    IF c.capacity = 0 THEN c.pending_ready /\ ~c.pending_taken
    ELSE c.count > 0

\* The value a receive takes next.
DeliverableValue(c) ==
    IF c.capacity = 0 THEN c.pending_value ELSE c.buffer[c.head]

\* C11: a recv that returns does so with absent exactly if nothing is
\* deliverable at that moment, and then the channel is closed and is left
\* unchanged; otherwise it returns the deliverable value, closed or not.
C11_RecvAbsentIffClosedAndDrained ==
    [][ret'.op = "recv" =>
          /\ ret'.res = "none" <=> ~Deliverable(ch)
          /\ ret'.res = "none" => (ch.closed /\ ch' = ch)
          /\ ret'.res = "some" => ret'.val = DeliverableValue(ch)]_vars

\* C11 witness: a recv on a closed unbuffered channel returned the pending
\* value that was deposited before the close.
C11_Witness ==
    /\ Unbuffered /\ ch.closed
    /\ ret.op = "recv" /\ ret.res = "some"
    /\ ret.val = recvLog[Len(recvLog)]
    /\ Len(recvLog) > closeRecvLen

\* C12: count stays within 0..capacity, and is 0 on an unbuffered channel.
C12_OccupancyBound ==
    /\ 0 <= ch.count
    /\ ch.count <= ch.capacity
    /\ Unbuffered => ch.count = 0

\* C12 witness: a full buffer of capacity two with a sender blocked on it.
C12_Witness ==
    /\ ch.capacity = 2
    /\ ch.count = ch.capacity
    /\ \E t \in Threads : pc[t] = "send_buffered" /\ t \in ch.not_full

\* C13: try_send on a buffered channel returns in its step: closed if the
\* channel is closed, else would_block if count = capacity, both leaving
\* the channel unchanged; else ok with the value stored at tail, tail
\* advanced and count grown by one.
C13_TrySendBuffered ==
    [][(Buffered /\ ret'.op = "try_send") =>
          /\ pc' = pc
          /\ ret'.val = nextVal
          /\ IF ch.closed
             THEN ret'.res = "closed" /\ ch' = ch
             ELSE IF ch.count = ch.capacity
             THEN ret'.res = "would_block" /\ ch' = ch
             ELSE /\ ret'.res = "ok"
                  /\ ch'.buffer = [ch.buffer EXCEPT ![ch.tail] = ret'.val]
                  /\ ch'.tail = (ch.tail + 1) % ch.capacity
                  /\ ch'.count = ch.count + 1
                  /\ ch'.head = ch.head
                  /\ ch'.closed = ch.closed]_vars

\* C13 witness: a try_send stored its value in the last free slot, the
\* write index wrapping to 0.
C13_Witness ==
    /\ ch.capacity = 2
    /\ ret.op = "try_send" /\ ret.res = "ok"
    /\ ch.count = ch.capacity
    /\ ch.tail = 0
    /\ ch.buffer[1] = ret.val

\* C14: try_send on an unbuffered channel returns would_block if the
\* channel is open and closed if it is closed, releases its value, and
\* leaves the channel, its wait sets and every thread as they were.
C14_TrySendUnbuffered ==
    [][(Unbuffered /\ ret'.op = "try_send") =>
          /\ ch' = ch
          /\ pc' = pc
          /\ recvLog' = recvLog
          /\ ret'.res = (IF ch.closed THEN "closed" ELSE "would_block")
          /\ released'[ret'.val] = released[ret'.val] + 1]_vars

\* C14 witness: try_send returned would_block while a receiver was blocked
\* in recv on the open unbuffered channel.
C14_Witness ==
    /\ Unbuffered /\ ~ch.closed
    /\ ret.op = "try_send" /\ ret.res = "would_block"
    /\ \E t \in Threads : pc[t] = "recv_unbuffered" /\ t \in ch.not_empty

\* C15: try_recv returns in its step; with something deliverable it returns
\* ok with that value (unbuffered: claiming it and signalling not_full;
\* buffered: count shrinks by one), otherwise it leaves the channel
\* unchanged and returns closed if the channel is closed, else empty.
C15_TryRecv ==
    [][ret'.op = "try_recv" =>
          /\ pc' = pc
          /\ IF Deliverable(ch)
             THEN /\ ret'.res = "ok"
                  /\ ret'.val = DeliverableValue(ch)
                  /\ Unbuffered =>
                        /\ ch'.pending_taken /\ ~ch'.pending_ready
                        /\ ch.not_full # {} =>
                              /\ ch'.not_full \subseteq ch.not_full
                              /\ ch'.not_full # ch.not_full
                  /\ Buffered => ch'.count = ch.count - 1
             ELSE /\ ch' = ch
                  /\ ret'.res = (IF ch.closed THEN "closed" ELSE "empty")]_vars

\* C15 witness: try_recv returned a buffered value from a closed channel.
C15_Witness ==
    /\ Buffered /\ ch.closed
    /\ ret.op = "try_recv" /\ ret.res = "ok"
    /\ Len(recvLog) > closeRecvLen

\* The state of the rendezvous slot.
SlotState(c) ==
    IF c.pending_ready
    THEN (IF c.pending_taken THEN "Invalid" ELSE "Filled")
    ELSE (IF c.pending_taken THEN "Taken" ELSE "Empty")

\* C19: on an open unbuffered channel a step either leaves the slot as it
\* is or moves it Empty -> Filled, Filled -> Taken or Taken -> Empty, the
\* last one by the sender whose value was taken.
C19_SlotStateMachine ==
    [][(Unbuffered /\ ~ch.closed /\ ~ch'.closed) =>
          \/ /\ SlotState(ch') = SlotState(ch)
             /\ ch'.pending_value = ch.pending_value
          \/ SlotState(ch) = "Empty" /\ SlotState(ch') = "Filled"
          \/ /\ SlotState(ch) = "Filled" /\ SlotState(ch') = "Taken"
             /\ ch'.pending_value = ch.pending_value
          \/ /\ SlotState(ch) = "Taken" /\ SlotState(ch') = "Empty"
             /\ \E t \in Threads :
                   /\ pc[t] = "send_unbuffered" /\ pc'[t] = "idle"
                   /\ arg[t] = ch.pending_value]_vars

\* The threads that were woken from a wait on not_empty / not_full of a
\* buffered channel and have not yet run on.
WokenRecv == {t \in Threads : pc[t] = "recv_buffered" /\ t \notin ch.not_empty}
WokenSend == {t \in Threads : pc[t] = "send_buffered" /\ t \notin ch.not_full}

\* C20: on an open buffered channel, while a receiver is blocked on
\* not_empty there are at least as many woken receivers as buffered values,
\* and while a sender is blocked on not_full at least as many woken senders
\* as free slots: a blocked thread whose condition holds is never left with
\* no thread about to act on it.
C20_NoLostWakeup ==
    (Buffered /\ ~ch.closed) =>
        /\ ch.not_empty # {} => ch.count <= Cardinality(WokenRecv)
        /\ ch.not_full # {} =>
              ch.capacity - ch.count <= Cardinality(WokenSend)

\* C20 witness: a receiver is still blocked on not_empty although a value
\* is buffered, and another receiver has been woken for it.
C20_Witness ==
    /\ Buffered /\ ~ch.closed
    /\ ch.not_empty # {}
    /\ ch.count > 0
    /\ WokenRecv # {}

\* Readiness of a pair as the select contract defines it.
SendIntentReady(c) == ~c.closed /\ c.capacity > 0 /\ c.count < c.capacity

RecvIntentReady(c) ==
    \/ c.count > 0
    \/ c.capacity = 0 /\ c.pending_ready /\ ~c.pending_taken
    \/ c.closed

PairReady(pair) ==
    IF pair.is_send THEN SendIntentReady(chan_of(pair))
    ELSE RecvIntentReady(chan_of(pair))

\* The pairs before position i that are on the second channel, which no
\* thread operates on, are not ready.
StaticPairsNotReady(i) ==
    \A j \in 1..i : sel.cases[j].chan = 2 => ~PairReady(sel.cases[j])

\* The selector inspects pair sel.i in this step and acts on its readiness:
\* ready, it returns that index; not ready, it goes on to the next pair, or
\* after the last pair it ends the poll with the outcome given by after.
InspectsInOrder(op, after) ==
    IF sel.i >= Len(sel.cases)
    THEN after
    ELSE IF PairReady(sel.cases[sel.i + 1])
    THEN /\ sel' = SelIdle
         /\ ret' = [op |-> op, res |-> "some", val |-> sel.i]
         /\ StaticPairsNotReady(sel.i)
    ELSE IF sel.i + 1 < Len(sel.cases)
    THEN sel' = [sel EXCEPT !.i = sel.i + 1]
    ELSE after /\ StaticPairsNotReady(Len(sel.cases))

\* C16: every step of select_poll leaves both channels unchanged; it
\* inspects the pairs in list order, returns the index of the first pair
\* it finds ready and returns none only after finding every pair not ready.
C16_SelectPoll ==
    [][(sel.mode = "poll" /\ sel' # sel) =>
          /\ UNCHANGED <<ch, ch2, pc>>
          /\ InspectsInOrder("select_poll",
                /\ sel' = SelIdle
                /\ ret' = [op |-> "select_poll", res |-> "none",
                           val |-> NULL])]_vars

\* C16 witness: select_poll returned index 1, the first pair not ready.
C16_Witness ==
    /\ ret.op = "select_poll"
    /\ ret.res = "some"
    /\ ret.val = 1

\* Every channel of the list is closed.
AllClosed == \A j \in 1..Len(sel.cases) : chan_of(sel.cases[j]).closed

\* C17: select_wait returns an index only from a poll round, for the first
\* pair that round finds ready; when the poll found nothing and every
\* channel of the list is closed it returns none without going to sleep;
\* and with timeout 0 it returns none only then.
C17_SelectWait ==
    [][(sel.mode = "wait" /\ sel' # sel) =>
          /\ UNCHANGED <<ch, ch2, pc>>
          /\ sel.pc = "poll" =>
                InspectsInOrder("select_wait",
                    sel' = [sel EXCEPT !.pc = "closed_check", !.i = 0])
          /\ (sel'.pc = "idle" /\ ret'.res = "some") => sel.pc = "poll"
          /\ (sel.pc = "closed_check" /\ AllClosed) =>
                /\ sel'.pc \in {"closed_check", "idle"}
                /\ sel'.elapsed \in {sel.elapsed, 0}
                /\ sel.i + 1 >= Len(sel.cases) =>
                      /\ sel' = SelIdle
                      /\ ret' = [op |-> "select_wait", res |-> "none",
                                 val |-> NULL]
          /\ (sel.pc = "closed_check" /\ sel'.pc = "idle") => AllClosed
          /\ (sel.timeout_ms = 0 /\ sel'.pc = "idle" /\ ret'.res = "none")
                => (sel.pc = "closed_check" /\ AllClosed)]_vars

\* C17 witness: a select_wait without time bound found no pair ready and
\* is at the second channel of its all_closed loop, both channels closed.
C17_Witness ==
    /\ sel.mode = "wait" /\ sel.timeout_ms = 0
    /\ sel.pc = "closed_check" /\ sel.i = 1
    /\ sel.cases[1].chan # sel.cases[2].chan
    /\ AllClosed

\* The progress of a running select_wait.
Rank(s) ==
    s.elapsed * (2 * MaxCases + 3)
    + (IF s.pc = "poll" THEN s.i
       ELSE IF s.pc = "closed_check" THEN MaxCases + 1 + s.i
       ELSE 2 * MaxCases + 2)

SelectorStep ==
    \/ conduit_select_poll_inspect
    \/ conduit_select_wait_closed_check
    \/ conduit_select_wait_sleep

\* C18: a running select_wait with timeout T > 0 has completed fewer than
\* T rounds, its thread is in no wait loop and on no condition variable,
\* and it can always take its next step; each of its steps returns or
\* advances it, a sleep completes one round, and the sleep that completes
\* round T returns none.
C18_SelectWaitTerminates ==
    /\ []((sel.pc # "idle" /\ sel.timeout_ms > 0) =>
            /\ sel.elapsed < sel.timeout_ms
            /\ pc[Selector] = "idle"
            /\ Selector \notin ch.not_empty \cup ch.not_full
            /\ ENABLED SelectorStep)
    /\ [][(sel.timeout_ms > 0 /\ sel' # sel) =>
            /\ sel'.pc = "idle" \/ Rank(sel') > Rank(sel)
            /\ sel.pc = "sleep" =>
                  \/ /\ sel'.pc = "poll"
                     /\ sel'.elapsed = sel.elapsed + 1
                  \/ /\ sel.elapsed + 1 = sel.timeout_ms
                     /\ sel' = SelIdle
                     /\ ret' = [op |-> "select_wait", res |-> "none",
                                val |-> NULL]]_vars

\* C18 witness: a select_wait with the largest timeout is asleep in its
\* last round, no pair having been ready in any round.
C18_Witness ==
    /\ sel.pc = "sleep"
    /\ sel.timeout_ms = MaxTimeout
    /\ sel.elapsed = MaxTimeout - 1
    /\ Len(sel.cases) = MaxCases

\* Slot i lies within the count slots starting at head, wrapping.
Occupied(c, i) == (i - c.head) % c.capacity < c.count

\* A value the channel still owns: not released by it and not handed to a
\* receiver.
Live(value) ==
    /\ value \in Values
    /\ released[value] = 0
    /\ \A k \in 1..Len(recvLog) : recvLog[k] # value

\* C21: on a buffered channel that has not been destroyed head and tail are below capacity, tail is
\* (head + count) mod capacity, the count slots from head on hold live,
\* pairwise different values and every other slot is NULL.
C21_CircularBufferShape ==
    (Buffered /\ ~Freed) =>
        /\ ch.head < ch.capacity
        /\ ch.tail < ch.capacity
        /\ ch.tail = (ch.head + ch.count) % ch.capacity
        /\ \A i \in 0..(ch.capacity - 1) :
              IF Occupied(ch, i)
              THEN /\ Live(ch.buffer[i])
                   /\ \A j \in 0..(ch.capacity - 1) :
                         (j # i /\ Occupied(ch, j)) =>
                             ch.buffer[j] # ch.buffer[i]
              ELSE ch.buffer[i] = NULL

\* C21 witness: after a dequeue the occupied region starts past slot 0 and
\* the write position has wrapped; slot 0, which was read, is cleared.
C21_Witness ==
    /\ ch.capacity >= 2
    /\ ch.head > ch.tail
    /\ ch.count >= 1
    /\ Len(recvLog) >= 1
    /\ ch.buffer[0] = NULL

\* Some thread is inside a blocking send on the unbuffered channel.
SenderInside == \E t \in Threads : pc[t] = "send_unbuffered"

SlotEmpty ==
    /\ ch.pending_value = NULL
    /\ ~ch.pending_ready
    /\ ~ch.pending_taken

\* C22: on an unbuffered channel with no thread inside a blocking send the
\* rendezvous slot is empty; and the finalizer, when it runs, finds the
\* slot empty and releases only values the channel still owns.
C22_QuiescentPendingSlot ==
    /\ []((Unbuffered /\ ~SenderInside) => SlotEmpty)
    /\ [][(~Freed /\ Freed') =>
            /\ ch.pending_value = NULL
            /\ ret'.val = NULL
            /\ \A v \in Values : released'[v] > released[v] => Live(v)]_vars

\* C22 witness: an unbuffered channel was destroyed after a rendezvous in
\* which a value was handed to a receiver and after a send that failed and
\* released its value.
C22_Witness ==
    /\ Unbuffered
    /\ Freed
    /\ Len(recvLog) >= 1
    /\ \E v \in Values : released[v] >= 1

====
